---- MODULE Spec2Model ----
(***************************************************************************)
(* Model of enimda.py: the entropy estimator, the random index selector,   *)
(* ENIMDA.__scan_frame (the per-side iterative border search) and          *)
(* ENIMDA.scan (the driver over the loaded frames).                        *)
(*                                                                         *)
(* Real numbers are exact fractions [n, d] with d > 0.  log2 is a table of *)
(* round(log2(k) * 10^4), so an entropy is a fraction of table units; the  *)
(* tests the code makes on entropies (> 0, != 0, ratio < delta, ratio <    *)
(* threshold) are made on these fractions.                                 *)
(***************************************************************************)
EXTENDS Integers, Sequences, FiniteSets, TLC

\* ---------------------------------------------------------------- bounds
MaxH == 4
MaxW == 2
MaxPixel == 1
MaxFrames == 1
BandMaxPixel == 3

\* ---------------------------------------------------------- real numbers
Frac(a, b) == [n |-> a, d |-> b]

\* a/b < c/d for a, c >= 0 and b, d > 0, by comparing continued fractions
\* (no product is formed, so no intermediate value leaves the integers)
RECURSIVE QLess(_, _, _, _)
QLess(a, b, c, d) ==
    IF (a \div b) # (c \div d) THEN (a \div b) < (c \div d)
    ELSE IF c % d = 0 THEN FALSE
    ELSE IF a % b = 0 THEN TRUE
    ELSE QLess(d, c % d, b, a % b)

FracLess(x, y) == QLess(x.n, x.d, y.n, y.d)

FracLeq(x, y) == ~FracLess(y, x)

\* Python 3 round(): nearest integer, a tie goes to the even neighbour
Round(x) ==
    LET q == x.n \div x.d
        r == x.n % x.d
    IN  IF 2 * r < x.d THEN q
        ELSE IF 2 * r > x.d THEN q + 1
        ELSE IF q % 2 = 0 THEN q ELSE q + 1

\* math.log2(k) in units of 10^-4 bit, k = 1..48
Log2T == << 0, 10000, 15850, 20000, 23219, 25850, 28074, 30000, 31699, 33219,
            34594, 35850, 37004, 38074, 39069, 40000, 40875, 41699, 42479,
            43219, 43923, 44594, 45236, 45850, 46439, 47004, 47549, 48074,
            48580, 49069, 49542, 50000, 50444, 50875, 51293, 51699, 52095,
            52479, 52854, 53219, 53576, 53923, 54263, 54594, 54919, 55236,
            55546, 55850 >>

\* ------------------------------------------------------------- __entropy
RECURSIVE SumOver(_, _)
SumOver(S, g) ==
    IF S = {} THEN 0
    ELSE LET v == CHOOSE u \in S : TRUE
         IN  g[v] + SumOver(S \ {v}, g)

Count(signal, v) == Cardinality({i \in 1..Len(signal) : signal[i] = v})

\* sum over the distinct values of prob * log2(1 / prob), prob = count / len;
\* the sum over no value (an empty signal) is 0 and divides nothing
Entropy(signal) ==
    LET values == {signal[i] : i \in 1..Len(signal)}
        len == Len(signal)
        term == [v \in values |->
                    Count(signal, v) * (Log2T[len] - Log2T[Count(signal, v)])]
    IN  IF values = {} THEN Frac(0, 1)
        ELSE Frac(SumOver(values, term), len)

Zero == Frac(0, 1)

IsPositive(e) == e.n > 0

\* ------------------------------------------------------------- __randoms
\* an optional argument: None, or Some(k)
None == {}

Some(k) == {k}

ValueOf(opt) == CHOOSE k \in opt : TRUE

\* the index sets __randoms(count, limit) can return: every index without
\* a limit, else the first `limit` entries of a shuffle of range(count)
Randoms(count, limit) ==
    IF limit = None THEN {0..(count - 1)}
    ELSE LET size == IF ValueOf(limit) < count THEN ValueOf(limit) ELSE count
         IN  {S \in SUBSET (0..(count - 1)) : Cardinality(S) = size}

\* the columns left by the striding pass of the selector call of line 130
Strided(count, paginate) == {i \in 0..(count - 1) : i % paginate = 0}

\* ------------------------------------------------------------ array views
Height(a) == Len(a)

Width(a) == Len(a[1])

\* np.rot90(a, k): k counter-clockwise quarter turns, k = 0..3
Rot90K(a, k) ==
    LET hh == Height(a)
        ww == Width(a)
    IN  CASE k = 0 -> a
          [] k = 1 -> [i \in 1..ww |-> [j \in 1..hh |-> a[j][ww + 1 - i]]]
          [] k = 2 -> [i \in 1..hh |-> [j \in 1..ww |-> a[hh + 1 - i][ww + 1 - j]]]
          [] k = 3 -> [i \in 1..ww |-> [j \in 1..hh |-> a[hh + 1 - j][i]]]

\* the ascending sequence of the members of a set of integers
RECURSIVE Ascending(_)
Ascending(S) ==
    IF S = {} THEN << >>
    ELSE LET m == CHOOSE u \in S : \A t \in S : u <= t
         IN  <<m>> \o Ascending(S \ {m})

\* np.hstack of the single-column slices a[0:h, r:r+1], r over cols
HStack(a, cols) ==
    LET order == Ascending(cols)
    IN  [j \in 1..Height(a) |-> [c \in 1..Len(order) |-> a[j][order[c] + 1]]]

\* a Python slice bound on an axis of length len: negative counts from the
\* end, and the result is clipped to 0..len
Clip(i, len) ==
    LET j == IF i < 0 THEN i + len ELSE i
    IN  IF j < 0 THEN 0 ELSE IF j > len THEN len ELSE j

\* the row indices (0-based) of a[lo:hi]
SliceRows(a, lo, hi) ==
    {r \in 0..(Height(a) - 1) : Clip(lo, Height(a)) <= r /\ r < Clip(hi, Height(a))}

RECURSIVE Concat(_, _, _)
Concat(a, r, hi) == IF r >= hi THEN << >> ELSE a[r + 1] \o Concat(a, r + 1, hi)

\* a[lo:hi, 0:w].flatten()
Flatten(a, lo, hi) == Concat(a, Clip(lo, Height(a)), Clip(hi, Height(a)))

\* ----------------------------------------------------------------- inputs
Pixels == 0..MaxPixel

FramesOfShape(hh, ww) == [1..hh -> [1..ww -> Pixels]]

FrameSet == UNION {FramesOfShape(hh, ww) : hh \in 1..MaxH, ww \in 1..MaxW}

FrameSeqs == UNION {[1..k -> FrameSet] : k \in 0..MaxFrames}

Thresholds == {Frac(0, 1), Frac(1, 2), Frac(1, 1), Frac(2, 1)}

Indents == {Frac(0, 1), Frac(1, 4), Frac(1, 2), Frac(3, 4), Frac(1, 1)}

StripesSet == {Frac(0, 1), Frac(1, 2), Frac(1, 1)}

MaxStripesSet == {None, Some(0), Some(1)}

Configs ==
    [threshold : Thresholds, indent : Indents, stripes : StripesSet,
     max_stripes : MaxStripesSet, fast : BOOLEAN]

\* ------------------------------------------------------------------ state
VARIABLES
    frames,     \* the loaded frames (self.__converted)
    cfg,        \* the keyword arguments of scan()
    pc,         \* the position in scan() / __scan_frame()
    f,          \* scan: the index of the frame being scanned
    acc,        \* scan: the local list `borders`
    result,     \* self.__borders
    side,       \* __scan_frame: the side under test
    rot,        \* __scan_frame: the rotated, column-sampled view
    borders,    \* __scan_frame: the offsets of the sides done
    border, start, start_set, subborder, delta, center,
    it          \* the next value the running `for` loop will yield

vars == <<frames, cfg, pc, f, acc, result, side, rot, borders, border, start,
          start_set, subborder, delta, center, it>>

\* round(indent * h), the upper end of both scans (lines 139 and 147)
Bound(hh) == Round(Frac(cfg.indent.n * hh, cfg.indent.d))

\* line 120
Paginate ==
    IF cfg.stripes.n > 0 /\ cfg.stripes.n < cfg.stripes.d
    THEN Round(Frac(cfg.stripes.d, cfg.stripes.n))
    ELSE 1

\* the column sets the selector call of line 130 can return for width ww
Columns(ww) ==
    LET kept == Ascending(Strided(ww, Paginate))
    IN  {{kept[j + 1] : j \in S} : S \in Randoms(Len(kept), cfg.max_stripes)}

\* the flat-band scenario: frames of the widest shape over a richer range
\* of pixel values, scanned with threshold 0.5, indent 0.5, every column, fast
BandPixels == 0..BandMaxPixel

BandFrames == UNION {[1..hh -> [1..MaxW -> BandPixels]] : hh \in 2..MaxH}

BandConfigs ==
    {c \in Configs : /\ c.threshold = Frac(1, 2)
                     /\ c.indent = Frac(1, 2)
                     /\ c.stripes = Frac(1, 1)
                     /\ c.max_stripes = None
                     /\ c.fast}

\* the iterative search proper: every valid threshold and indent, every
\* column, no fast mode
SearchConfigs ==
    {c \in Configs : /\ c.threshold.n > 0
                     /\ c.indent.n > 0
                     /\ c.stripes = Frac(1, 1)
                     /\ c.max_stripes = None
                     /\ ~c.fast}

\* the state when scan() is called
Begin ==
    /\ pc = "scan"
    /\ f = 0
    /\ acc = << >>
    /\ result = << >>
    /\ side = 0
    /\ rot = << >>
    /\ borders = << >>
    /\ border = 0
    /\ start = 0
    /\ start_set = FALSE
    /\ subborder = 0
    /\ delta = Zero
    /\ center = 0
    /\ it = 0

Init ==
    /\ frames \in FrameSeqs
    /\ cfg \in Configs
    /\ Begin

SearchInit ==
    /\ frames \in [1..1 -> FramesOfShape(MaxH, MaxW)]
    /\ cfg \in SearchConfigs
    /\ Begin

BandInit ==
    /\ frames \in [1..1 -> BandFrames]
    /\ cfg \in BandConfigs
    /\ Begin

\* ---------------------------------------------------------- ENIMDA.scan
\* lines 184-191: the next frame is handed to __scan_frame, whose locals
\* are fresh (borders = [], no `start` yet)
ScanCall ==
    /\ pc = "scan"
    /\ f < Len(frames)
    /\ borders' = << >>
    /\ side' = 0
    /\ start_set' = FALSE
    /\ pc' = "side"
    /\ UNCHANGED <<frames, cfg, f, acc, result, rot, border, start, subborder,
                   delta, center, it>>

\* lines 193-195: every frame is done
ScanReturn ==
    /\ pc = "scan"
    /\ f = Len(frames)
    /\ result' = acc
    /\ pc' = "done"
    /\ UNCHANGED <<frames, cfg, f, acc, side, rot, borders, border, start,
                   start_set, subborder, delta, center, it>>

\* ------------------------------------------------- ENIMDA.__scan_frame
\* lines 123-139: rotate, keep the selected columns (np.hstack of no column
\* raises), border = 0 and the first pass begins
SideBegin ==
    /\ pc = "side"
    /\ side < 4
    /\ LET r == Rot90K(frames[f + 1], side)
       IN  \E cols \in Columns(Width(r)) :
               IF cols = {}
               THEN /\ pc' = "error"
                    /\ UNCHANGED <<rot, border, it>>
               ELSE /\ rot' = HStack(r, cols)
                    /\ border' = 0
                    /\ it' = 1
                    /\ pc' = "find_start"
    /\ UNCHANGED <<frames, cfg, f, acc, result, side, borders, start,
                   start_set, subborder, delta, center>>

\* line 169 and lines 185-191: the four offsets go back to scan()
FrameReturn ==
    /\ pc = "side"
    /\ side = 4
    /\ acc' = Append(acc, borders)
    /\ f' = f + 1
    /\ pc' = "scan"
    /\ UNCHANGED <<frames, cfg, result, side, rot, borders, border, start,
                   start_set, subborder, delta, center, it>>

\* lines 139-142: one iteration of `for start in range(border + 1, ...)`
FindStartStep ==
    /\ pc = "find_start"
    /\ it <= Bound(Height(rot))
    /\ start' = it
    /\ start_set' = TRUE
    /\ IF IsPositive(Entropy(Flatten(rot, border, it)))
       THEN /\ pc' = "sub_init"
            /\ it' = it
       ELSE /\ pc' = "find_start"
            /\ it' = it + 1
    /\ UNCHANGED <<frames, cfg, f, acc, result, side, rot, borders, border,
                   subborder, delta, center>>

\* line 139: the range is exhausted (or was empty); `start` keeps its value
FindStartEnd ==
    /\ pc = "find_start"
    /\ it > Bound(Height(rot))
    /\ pc' = "sub_init"
    /\ UNCHANGED <<frames, cfg, f, acc, result, side, rot, borders, border,
                   start, start_set, subborder, delta, center, it>>

\* mutant of CenterFirst: the range runs one past round(indent * h)
CenterFirstPastEnd(hh) == Bound(hh) + 1

\* the first value of reversed(range(start, round(indent * h) + 1))
CenterFirst(hh) == Bound(hh)

\* mutant of CenterLast: the range starts at the first row, not at `start`
CenterLastFromTop(st) == 1

\* the last value of reversed(range(start, round(indent * h) + 1))
CenterLast(st) == st

\* lines 145-147: reading `start` when no loop ever assigned it raises
SubInit ==
    /\ pc = "sub_init"
    /\ subborder' = 0
    /\ delta' = cfg.threshold
    /\ IF start_set
       THEN /\ it' = CenterFirst(Height(rot))
            /\ pc' = "find_sub"
       ELSE /\ it' = it
            /\ pc' = "error"
    /\ UNCHANGED <<frames, cfg, f, acc, result, side, rot, borders, border,
                   start, start_set, center>>

\* lines 148-149
Upper(a, b, c) == Entropy(Flatten(a, b, c))

\* lines 150-152
Lower(a, b, c) == Entropy(Flatten(a, c, 2 * c - b))

\* line 153
Diff(upper, lower, dl) ==
    IF lower.n # 0 THEN Frac(upper.n * lower.d, upper.d * lower.n) ELSE dl

\* mutant of Accept: a tie with the running minimum also wins
AcceptTie(diff, dl, thr) == FracLeq(diff, dl) /\ FracLess(diff, thr)

\* line 155
Accept(diff, dl, thr) == FracLess(diff, dl) /\ FracLess(diff, thr)

\* lines 147-157: one iteration of the sub-border loop
FindSubStep ==
    /\ pc = "find_sub"
    /\ it >= CenterLast(start)
    /\ center' = it
    /\ it' = it - 1
    /\ \E diff \in {Diff(Upper(rot, border, it), Lower(rot, border, it), delta)} :
           IF Accept(diff, delta, cfg.threshold)
           THEN /\ subborder' = it
                /\ delta' = diff
           ELSE UNCHANGED <<subborder, delta>>
    /\ UNCHANGED <<frames, cfg, pc, f, acc, result, side, rot, borders,
                   border, start, start_set>>

\* line 147: the range is exhausted (or was empty)
FindSubEnd ==
    /\ pc = "find_sub"
    /\ it < CenterLast(start)
    /\ pc' = "check"
    /\ UNCHANGED <<frames, cfg, f, acc, result, side, rot, borders, border,
                   start, start_set, subborder, delta, center, it>>

\* mutant of Stop: the `subborder == 0` test is missing
StopOnRepeat(sb, b) == b = sb

\* line 159
Stop(sb, b) == sb = 0 \/ b = sb

\* mutant of Again: the `if fast: break` is missing
AgainAlways(fast) == TRUE

\* lines 164-165 (negated): another pass follows
Again(fast) == ~fast

\* lines 159-160 and 167: no further improvement, the side is done
PassStop ==
    /\ pc = "check"
    /\ Stop(subborder, border)
    /\ borders' = Append(borders, border)
    /\ side' = side + 1
    /\ pc' = "side"
    /\ UNCHANGED <<frames, cfg, f, acc, result, rot, border, start,
                   start_set, subborder, delta, center, it>>

\* lines 162-167 and 137-139: border = subborder, then either the side is
\* done (fast) or the next pass begins
PassNext ==
    /\ pc = "check"
    /\ ~Stop(subborder, border)
    /\ border' = subborder
    /\ IF Again(cfg.fast)
       THEN /\ it' = subborder + 1
            /\ pc' = "find_start"
            /\ UNCHANGED <<borders, side>>
       ELSE /\ borders' = Append(borders, subborder)
            /\ side' = side + 1
            /\ pc' = "side"
            /\ it' = it
    /\ UNCHANGED <<frames, cfg, f, acc, result, rot, start, start_set,
                   subborder, delta, center>>

Next ==
    \/ ScanCall
    \/ ScanReturn
    \/ SideBegin
    \/ FrameReturn
    \/ FindStartStep
    \/ FindStartEnd
    \/ SubInit
    \/ FindSubStep
    \/ FindSubEnd
    \/ PassStop
    \/ PassNext

Spec == Init /\ [][Next]_vars

\* scan() on the inputs of the flat-band scenario
BandSpec == BandInit /\ [][Next]_vars

\* scan() without fast mode; the interpreter runs the next statement while
\* there is one
SearchSpec == SearchInit /\ [][Next]_vars /\ WF_vars(Next)

\* ============================================================ properties
\* round(indent * hh) stated directly: the integer nearest to indent * hh,
\* the even one of the two when indent * hh lies halfway between them
Nearest(hh) ==
    CHOOSE k \in 0..hh :
        LET gap == 2 * (k * cfg.indent.d - cfg.indent.n * hh)
            dist == IF gap < 0 THEN 0 - gap ELSE gap
        IN  dist < cfg.indent.d \/ (dist = cfg.indent.d /\ k % 2 = 0)

\* the height of the view of side s of the frame being scanned
SideHeight(s) ==
    IF s % 2 = 0 THEN Height(frames[f + 1]) ELSE Width(frames[f + 1])

InPass == pc \in {"find_start", "sub_init", "find_sub", "check"}

ValidConfig ==
    /\ cfg.threshold.n > 0
    /\ cfg.indent.n > 0
    /\ cfg.stripes.n > 0
    /\ cfg.max_stripes # Some(0)

AllColumns == cfg.stripes = Frac(1, 1) /\ cfg.max_stripes = None

\* C1: in every pass and for every side done, 0 <= border <= round(indent*h)
\* for the height h of that side's rotated view
C1_OffsetInRange ==
    /\ InPass => 0 <= border /\ border <= Nearest(Height(rot))
    /\ f < Len(frames) =>
          \A i \in 1..Len(borders) :
              0 <= borders[i] /\ borders[i] <= Nearest(SideHeight(i - 1))
    /\ \A k \in 1..Len(acc) : \A i \in 1..4 :
          /\ 0 <= acc[k][i]
          /\ acc[k][i] <= Nearest(IF i % 2 = 1 THEN Height(frames[k])
                                                ELSE Width(frames[k]))

\* a side scanned without fast mode has returned the largest offset allowed
C1_Witness ==
    /\ ~cfg.fast
    /\ pc = "side"
    /\ Len(borders) >= 1
    /\ borders[1] >= 2
    /\ borders[1] = Nearest(SideHeight(0))

\* the rows lo..hi (1-based) of frame a all hold the value v
FlatRows(a, lo, hi, v) ==
    \A r \in lo..hi : \A c \in 1..Width(a) : a[r][c] = v

\* every row lo..hi (1-based) of frame a holds at least two values
VariedRows(a, lo, hi) ==
    \A r \in lo..hi : \E c \in 1..Width(a) : a[r][c] # a[r][1]

\* the top k rows hold one constant value, the remaining rows are varied
Banded(a, k) ==
    /\ k >= 1
    /\ k < Height(a)
    /\ FlatRows(a, 1, k, a[1][1])
    /\ VariedRows(a, k + 1, Height(a))

\* the configuration of the flat-band scenario
BandConfig ==
    /\ cfg.threshold = Frac(1, 2)
    /\ cfg.indent = Frac(1, 2)
    /\ AllColumns
    /\ cfg.fast

\* side 0 of the first frame has returned its offset
SideZeroDone == f = 0 /\ Len(frames) >= 1 /\ Len(borders) >= 1

\* C2 as stated: a flat band of k rows over varied rows, scanned on side 0
\* with threshold 0.5, indent 0.5, all columns and fast, yields offset k
C2_ReturnsBandHeight ==
    (BandConfig /\ SideZeroDone) =>
        \A k \in 1..MaxH : Banded(frames[1], k) => borders[1] = k

\* C2 amended: the offset is k exactly when k = round(indent * h); for a
\* smaller k it is 0 or greater than k, for a larger k it is 0 or
\* round(indent * h)
C2_BandOffset ==
    (BandConfig /\ SideZeroDone) =>
        \A k \in 1..MaxH : Banded(frames[1], k) =>
            LET top == Nearest(Height(frames[1]))
            IN  /\ k = top => borders[1] = k
                /\ k < top => borders[1] = 0 \/ borders[1] > k
                /\ k > top => borders[1] = 0 \/ borders[1] = top

\* a band lower than round(indent * h) was scanned and the offset is past it
C2_Witness ==
    /\ BandConfig
    /\ SideZeroDone
    /\ Banded(frames[1], 1)
    /\ Nearest(Height(frames[1])) = 2
    /\ borders[1] = 2
    /\ pc = "side"

\* C6: with fast, the pass that reaches the termination check is the first
\* one (border is still 0), it ends the side, and the offset returned is
\* the subborder of that pass
C6_FastSinglePass ==
    [][(cfg.fast /\ pc = "check") =>
          /\ border = 0
          /\ pc' = "side"
          /\ borders' = Append(borders, subborder)]_vars

\* a fast scan has returned a non-zero subborder as the offset of a side
C6_Witness ==
    /\ cfg.fast
    /\ pc = "side"
    /\ Len(borders) >= 1
    /\ subborder >= 1
    /\ borders[Len(borders)] = subborder

\* every pixel of frame a holds the same value
Uniform(a) == FlatRows(a, 1, Height(a), a[1][1])

\* C3 as stated: a uniform frame scanned with threshold > 0 and indent in
\* (0, 1] raises nothing and gets offset 0 on each of its four sides
C3_BlankFrameAllZero ==
    (Len(frames) >= 1 /\ Uniform(frames[1]) /\ ValidConfig) =>
        /\ pc # "error"
        /\ \A i \in 1..Len(borders) : borders[i] = 0
        /\ pc = "done" => result = <<(<<0, 0, 0, 0>>)>>

\* an entropy is about to be computed, or a border offset has been produced
Scanning ==
    \/ pc = "find_start" /\ it <= Bound(Height(rot))
    \/ pc = "find_sub" /\ it >= CenterLast(start)
    \/ borders # << >>
    \/ \E k \in 1..Len(acc) : acc[k] # << >>

\* C4 as stated: with indent <= 0, threshold <= 0, stripes <= 0 or
\* max_stripes <= 0 no frame or side is scanned
C4_InvalidConfigRejected == ~ValidConfig => ~Scanning

\* indent * h < 1 for the view of the side under test
ShortView == cfg.indent.n * Height(rot) < cfg.indent.d

\* C5 as stated: when indent * h < 1 the side gets offset 0 with no start
\* scan, no sub-border scan and no error
C5_ShortViewNotScanned ==
    (ValidConfig /\ ShortView /\ (InPass \/ pc = "error")) =>
        /\ ~(pc = "find_start" /\ it <= Bound(Height(rot)))
        /\ ~(pc = "find_sub" /\ it >= CenterLast(start))
        /\ border = 0
        /\ pc # "error"

\* C8 as stated: every start and center tested satisfies
\* border < start <= center <= round(indent * h), and the regions
\* [border, start), [border, center) and [center, 2 * center - border) of
\* the view each hold at least one row
C8_NoEmptyRegion ==
    ValidConfig =>
    /\ (pc = "find_start" /\ it <= Bound(Height(rot))) =>
          /\ border < it /\ it <= Nearest(Height(rot))
          /\ SliceRows(rot, border, it) # {}
    /\ (pc = "find_sub" /\ it >= CenterLast(start)) =>
          /\ border < start /\ start <= it /\ it <= Nearest(Height(rot))
          /\ SliceRows(rot, border, it) # {}
          /\ SliceRows(rot, it, 2 * it - border) # {}

\* C10 as stated: without fast, a pass that does not stop leaves border
\* greater than it was at the start of the pass
C10_BorderIncreases ==
    [][(ValidConfig /\ ~cfg.fast /\ pc = "check" /\ pc' = "find_start") =>
           border' > border]_vars

\* the centers of the sub-border scan of the pass that has just ended
CentersOfPass ==
    {c \in 1..Height(rot) : start <= c /\ c <= Nearest(Height(rot))}

\* those with a non-zero lower entropy, and the ratio upper / lower of one
WithLower == {c \in CentersOfPass : Lower(rot, border, c).n # 0}

Ratio(c) ==
    Frac(Upper(rot, border, c).n * Lower(rot, border, c).d,
         Upper(rot, border, c).d * Lower(rot, border, c).n)

SameValue(x, y) == ~FracLess(x, y) /\ ~FracLess(y, x)

\* C9: after a sub-border scan, subborder is 0 exactly when no center has a
\* non-zero lower entropy and a ratio below threshold; otherwise it is the
\* largest center whose ratio is the minimum over the centers with non-zero
\* lower entropy; delta ends as that minimum, or as threshold
C9_SubborderIsArgMin ==
    pc = "check" =>
        /\ subborder = 0 <=>
              ~\E c \in WithLower : FracLess(Ratio(c), cfg.threshold)
        /\ subborder = 0 => delta = cfg.threshold
        /\ subborder # 0 =>
              /\ subborder \in WithLower
              /\ \A c \in WithLower : ~FracLess(Ratio(c), Ratio(subborder))
              /\ \A c \in WithLower :
                    c > subborder => FracLess(Ratio(subborder), Ratio(c))
              /\ SameValue(delta, Ratio(subborder))

\* a scan ended on a center that ties with a smaller center
C9_Witness ==
    /\ pc = "check"
    /\ subborder # 0
    /\ \E c \in WithLower :
          c < subborder /\ SameValue(Ratio(c), Ratio(subborder))

\* C7: without fast, a pass over a view with round(indent * h) >= 1 is
\* followed by the end of the side's search
C7_SearchTerminates ==
    (~cfg.fast /\ pc = "find_start" /\ Nearest(Height(rot)) >= 1)
        ~> (pc = "side")

\* a pass after the first one has met the termination check
C7_Witness ==
    /\ ~cfg.fast
    /\ pc = "check"
    /\ border >= 1
    /\ Stop(subborder, border)

====
